---- MODULE Spec2Model ----
(***************************************************************************)
(* State-machine model of the AmanahPro-common messaging client layer:     *)
(*   - RabbitMQService   (src/messagebroker/RabbitMQService.go)            *)
(*   - RabbitMQPublisher (src/messagebroker/RabbitMQPublisher.go)          *)
(*   - ConsumerService   (src/services/consumer_service.go)                *)
(* Four specifications share the variables: Spec runs the connection       *)
(* manager, the publisher, its retry loops and the broker; ManagerSpec     *)
(* runs the connection manager with callers of NewChannel, Close and       *)
(* SetOnReconnect;                                                         *)
(* ConsumerSpec runs the consumer dispatcher on a burst of sample bodies;  *)
(* HandlerSpec runs it one delivery at a time over every generated         *)
(* envelope.  LiveSpec and ManagerLiveSpec add the fairness of the         *)
(* goroutine scheduler.                                                    *)
(***************************************************************************)
EXTENDS Integers, Sequences, FiniteSets, TLC

\* ------------------------------------------------------------------ bounds
\* Number of Publish calls the application makes.
MaxCalls == 2
\* Number of times the broker connection is lost.
MaxDrops == 1

\* The `concurrency` argument of StartConsumer.
Concurrency == 2
\* Number of Close calls the application makes.
MaxCloses == 2

\* ------------------------------------------------------- program constants
\* retryInterval: 5 * time.Second
RetryInterval == 5
\* maxBackoff := 30 * time.Second
MaxBackoff == 30

\* s.queueNames: the configured queue list, in declaration order.
QueueNames == <<"q1", "q2">>

AllQueues == {QueueNames[i] : i \in 1..Len(QueueNames)}

\* DeclareQueue: the arguments of s.Channel.QueueDeclare for queue q.
QueueDeclare(q) ==
  [name |-> q, durable |-> TRUE, autoDelete |-> FALSE, exclusive |-> FALSE,
   noWait |-> FALSE]

\* The names of the queues declared on channel ch.
DeclaredOn(ch) == {d.name : d \in ch.declared}

\* queuedMessage{QueueName, Message}: the (queue, body) pairs the
\* application publishes.
Messages ==
  { [QueueName |-> "q1", Message |-> "a"],
    [QueueName |-> "q1", Message |-> "b"],
    [QueueName |-> "q2", Message |-> "a"] }

\* Goroutines that run Publish: the application's caller and the
\* retryMessages loops.  Loop 1 is started by NewRabbitMQPublisher, every
\* resumePublishing starts one more; a resume needs a reconnect and a
\* reconnect needs a lost connection, so MaxDrops + 1 loops can exist when
\* Close is not called.
App == 0
Loops == 1..(MaxDrops + 1)
Threads == {App} \cup Loops

VARIABLES
  \* RabbitMQService
  Conn,          \* "open" | "closed": state of s.Conn
  Channel,       \* [open, declared]: s.Channel and the queues declared on it
  mutex,         \* s.mutex: "free" or the holder
  spc,           \* position of the handleReconnect goroutine
  sidx,          \* DeclareQueues: index of the next queue name to declare
  \* broker
  brokerUp,      \* whether the broker accepts connections
  drops,         \* connection losses so far
  \* RabbitMQPublisher
  messageQueue,  \* p.messageQueue
  paused,        \* p.paused
  pc,            \* position of every goroutine that runs Publish
  amsg,          \* the application's Publish arguments
  batch,         \* retryMessages: the part of local `queue` not yet iterated
  backoff,       \* retryMessages: local backoff, in seconds
  \* observation
  calls,         \* completed application Publish calls with their result
  sent,          \* messages the broker accepted, in order
  \* callers of NewChannel and Close
  npc,           \* position of the goroutine that calls NewChannel
  nret,          \* what the last NewChannel call returned
  closes,        \* completed Close calls
  onReconnect,   \* whose callback the s.onReconnect wrapper holds
  callback,      \* the callback held by the wrapper handleReconnect called
  \* ConsumerService
  workerChan,    \* number of tokens in workerChan
  tasks,         \* one record per live processing goroutine, in start order
  pulled         \* the delivery (index of Bodies) the dispatcher took from
                 \* msgs and holds while it waits on workerChan; 0 for none

callerVars == <<npc, nret, closes, onReconnect, callback>>
brokerVars == <<Conn, Channel, mutex, spc, sidx, brokerUp, drops, messageQueue,
                paused, pc, amsg, batch, backoff, calls, sent, callerVars>>
consumerVars == <<workerChan, tasks, pulled>>
vars == <<brokerVars, consumerVars>>

NoMsg == [QueueName |-> "", Message |-> ""]

Min(a, b) == IF a < b THEN a ELSE b

\* ---------------------------------------------------------------- publisher

\* Faulty queueMessage: appends without looking for the pair in the buffer.
queueMessageNoDedup(buf, m) == Append(buf, m)

\* Faulty queueMessage: takes an entry for the same queue as a duplicate,
\* whatever its body.
queueMessageByQueue(buf, m) ==
  IF \E i \in 1..Len(buf) : buf[i].QueueName = m.QueueName
  THEN buf
  ELSE Append(buf, m)

\* queueMessage (under queueMutex): the buffer after enqueueing m, skipping a
\* (queue, body) pair that is already there.
queueMessage(buf, m) ==
  IF \E i \in 1..Len(buf) :
       buf[i].Message = m.Message /\ buf[i].QueueName = m.QueueName
  THEN buf
  ELSE Append(buf, m)

\* The message thread t is publishing: the application's argument, or the
\* entry the retry loop's range statement is at.
CurMsg(t) == IF t = App THEN amsg ELSE Head(batch[t])

\* Faulty end of iteration: the backoff is doubled without the inner
\* `if backoff > maxBackoff` cap.
AdvanceNoCap(l) ==
  LET rest == Tail(batch[l]) IN
  /\ batch' = [batch EXCEPT ![l] = rest]
  /\ IF rest = <<>>
     THEN /\ pc' = [pc EXCEPT ![l] = "sleep"]
          /\ backoff' = [backoff EXCEPT ![l] =
               IF backoff[l] < MaxBackoff THEN 2 * backoff[l] ELSE backoff[l]]
     ELSE /\ pc' = [pc EXCEPT ![l] = "pub_check"]
          /\ UNCHANGED backoff

\* End of one iteration of `for _, msg := range queue`; after the last entry
\* the backoff is doubled up to maxBackoff and the loop sleeps again.
Advance(l) ==
  LET rest == Tail(batch[l]) IN
  /\ batch' = [batch EXCEPT ![l] = rest]
  /\ IF rest = <<>>
     THEN /\ pc' = [pc EXCEPT ![l] = "sleep"]
          /\ backoff' = [backoff EXCEPT ![l] =
               IF backoff[l] < MaxBackoff
               THEN Min(2 * backoff[l], MaxBackoff) ELSE backoff[l]]
     ELSE /\ pc' = [pc EXCEPT ![l] = "pub_check"]
          /\ UNCHANGED backoff

\* Publish returns ret to its caller: the application records the result; the
\* retry loop re-queues the entry on an error and moves on otherwise.
Return(t, ret) ==
  IF t = App
  THEN /\ pc' = [pc EXCEPT ![t] = "idle"]
       /\ calls' = Append(calls, [msg |-> amsg, ret |-> ret])
       /\ amsg' = NoMsg
       /\ UNCHANGED <<batch, backoff>>
  ELSE /\ IF ret = "nil"
          THEN Advance(t)
          ELSE /\ pc' = [pc EXCEPT ![t] = "requeue"]
               /\ UNCHANGED <<batch, backoff>>
       /\ UNCHANGED <<calls, amsg>>

\* Publish, `if p.paused`: the flag is read without queueMutex.
CheckPaused(t) ==
  pc' = [pc EXCEPT ![t] = IF paused THEN "pub_queue" ELSE "pub_send"]

\* The application calls Publish(queueName, message) and reads p.paused.
AppPublish(m) ==
  /\ pc[App] = "idle"
  /\ Len(calls) < MaxCalls
  /\ amsg' = m
  /\ CheckPaused(App)
  /\ UNCHANGED <<Conn, Channel, mutex, spc, sidx, brokerUp, drops,
                 messageQueue, paused, batch, backoff, calls, sent>>
  /\ UNCHANGED <<callerVars, consumerVars>>

\* A retry loop calls Publish(msg.QueueName, msg.Message) and reads p.paused.
RetryPublish(l) ==
  /\ pc[l] = "pub_check"
  /\ CheckPaused(l)
  /\ UNCHANGED <<Conn, Channel, mutex, spc, sidx, brokerUp, drops,
                 messageQueue, paused, amsg, batch, backoff, calls, sent>>
  /\ UNCHANGED <<callerVars, consumerVars>>

\* Publish, p.service.Channel.Publish(...): the send succeeds on an open
\* channel and the call returns nil; on a closed one it fails and the call
\* goes on to queue the message.
PublishSend(t) ==
  /\ pc[t] = "pub_send"
  /\ IF Channel.open
     THEN /\ sent' = Append(sent, CurMsg(t))
          /\ Return(t, "nil")
     ELSE /\ pc' = [pc EXCEPT ![t] = "pub_queue"]
          /\ UNCHANGED <<sent, amsg, batch, backoff, calls>>
  /\ UNCHANGED <<Conn, Channel, mutex, spc, sidx, brokerUp, drops,
                 messageQueue, paused>>
  /\ UNCHANGED <<callerVars, consumerVars>>

\* Faulty Publish: returns the error without queueing the message.
PublishQueueNoEnqueue(t) ==
  /\ pc[t] = "pub_queue"
  /\ UNCHANGED messageQueue
  /\ Return(t, "err")
  /\ UNCHANGED <<Conn, Channel, mutex, spc, sidx, brokerUp, drops,
                 paused, sent>>
  /\ UNCHANGED <<callerVars, consumerVars>>

\* Publish, p.queueMessage(queueName, message) followed by the error return,
\* on the paused path and on the failed-send path.
PublishQueue(t) ==
  /\ pc[t] = "pub_queue"
  /\ messageQueue' = queueMessage(messageQueue, CurMsg(t))
  /\ Return(t, "err")
  /\ UNCHANGED <<Conn, Channel, mutex, spc, sidx, brokerUp, drops,
                 paused, sent>>
  /\ UNCHANGED <<callerVars, consumerVars>>

\* Faulty retryMessages: the paused test is inverted, `if !p.paused`.
RetryWakeInverted(l) ==
  /\ pc[l] = "sleep"
  /\ pc' = [pc EXCEPT ![l] = IF ~paused THEN "sleep" ELSE "swap"]
  /\ UNCHANGED <<Conn, Channel, mutex, spc, sidx, brokerUp, drops,
                 messageQueue, paused, amsg, batch, backoff, calls, sent>>
  /\ UNCHANGED <<callerVars, consumerVars>>

\* retryMessages: time.Sleep(backoff); if p.paused { continue }.
RetryWake(l) ==
  /\ pc[l] = "sleep"
  /\ pc' = [pc EXCEPT ![l] = IF paused THEN "sleep" ELSE "swap"]
  /\ UNCHANGED <<Conn, Channel, mutex, spc, sidx, brokerUp, drops,
                 messageQueue, paused, amsg, batch, backoff, calls, sent>>
  /\ UNCHANGED <<callerVars, consumerVars>>

\* retryMessages: under queueMutex take the whole buffer and clear it; an
\* empty buffer resets the backoff and the loop sleeps again.
RetrySwap(l) ==
  /\ pc[l] = "swap"
  /\ messageQueue' = <<>>
  /\ IF messageQueue = <<>>
     THEN /\ backoff' = [backoff EXCEPT ![l] = RetryInterval]
          /\ pc' = [pc EXCEPT ![l] = "sleep"]
          /\ UNCHANGED batch
     ELSE /\ batch' = [batch EXCEPT ![l] = messageQueue]
          /\ pc' = [pc EXCEPT ![l] = "pub_check"]
          /\ UNCHANGED backoff
  /\ UNCHANGED <<Conn, Channel, mutex, spc, sidx, brokerUp, drops,
                 paused, amsg, calls, sent>>
  /\ UNCHANGED <<callerVars, consumerVars>>

\* retryMessages: Publish returned an error, p.queueMessage(msg...) again.
RetryRequeue(l) ==
  /\ pc[l] = "requeue"
  /\ messageQueue' = queueMessage(messageQueue, Head(batch[l]))
  /\ Advance(l)
  /\ UNCHANGED <<Conn, Channel, mutex, spc, sidx, brokerUp, drops,
                 paused, amsg, calls, sent>>
  /\ UNCHANGED <<callerVars, consumerVars>>

\* pausePublishing (under queueMutex).
pausePublishing == paused' = TRUE

\* resumePublishing (under queueMutex): clear the flag and
\* `go p.retryMessages()`, a further loop starting with the base interval.
resumePublishing ==
  /\ paused' = FALSE
  /\ IF \E l \in Loops : pc[l] = "off"
     THEN LET l == CHOOSE k \in Loops :
                     pc[k] = "off" /\ \A j \in Loops : pc[j] = "off" => k <= j
          IN /\ pc' = [pc EXCEPT ![l] = "sleep"]
             /\ backoff' = [backoff EXCEPT ![l] = RetryInterval]
     ELSE UNCHANGED <<pc, backoff>>

\* ------------------------------------------------------- connection manager

\* The broker connection is lost: s.Conn and its channel close, which fills
\* s.notifyClose; the broker itself may stay reachable or not.
Drop ==
  /\ Conn = "open"
  /\ drops < MaxDrops
  /\ drops' = drops + 1
  /\ Conn' = "closed"
  /\ Channel' = [Channel EXCEPT !.open = FALSE]
  /\ brokerUp' \in BOOLEAN
  /\ UNCHANGED <<mutex, spc, sidx, messageQueue, paused, pc, amsg, batch,
                 backoff, calls, sent>>
  /\ UNCHANGED <<callerVars, consumerVars>>

\* The broker accepts connections again.
BrokerRecover ==
  /\ ~brokerUp
  /\ brokerUp' = TRUE
  /\ UNCHANGED <<Conn, Channel, mutex, spc, sidx, drops, messageQueue, paused,
                 pc, amsg, batch, backoff, calls, sent>>
  /\ UNCHANGED <<callerVars, consumerVars>>

\* handleReconnect: err := <-s.notifyClose returns once the connection the
\* channel was registered on has closed.
NotifyClose ==
  /\ spc = "wait"
  /\ Conn = "closed"
  /\ spc' = "connect"
  /\ UNCHANGED <<Conn, Channel, mutex, sidx, brokerUp, drops, messageQueue,
                 paused, pc, amsg, batch, backoff, calls, sent>>
  /\ UNCHANGED <<callerVars, consumerVars>>

\* connect: amqp.Dial or conn.Channel() fails; connect returns the error with
\* nothing assigned and handleReconnect sleeps reconnectWait and tries again.
ConnectFail ==
  /\ spc = "connect"
  /\ mutex = "free"
  /\ UNCHANGED brokerVars
  /\ UNCHANGED consumerVars

\* connect: under s.mutex, Dial and conn.Channel() succeed; s.Conn, s.Channel
\* and s.notifyClose are assigned, then DeclareQueues starts.
ConnectDial ==
  /\ spc = "connect"
  /\ mutex = "free"
  /\ brokerUp
  /\ mutex' = "connect"
  /\ Conn' = "open"
  /\ Channel' = [open |-> TRUE, declared |-> {}]
  /\ spc' = "connect_declare"
  /\ sidx' = 1
  /\ UNCHANGED <<brokerUp, drops, messageQueue, paused, pc, amsg, batch,
                 backoff, calls, sent>>
  /\ UNCHANGED <<callerVars, consumerVars>>

\* Faulty connect: returns nil whatever DeclareQueues returned.
AfterDeclareIgnoreErr(err) ==
  CASE spc = "connect_declare" ->
         /\ mutex' = "free"
         /\ spc' = "wrapper_declare"
         /\ callback' = onReconnect
    [] spc = "wrapper_declare" ->
         /\ spc' = "pause"
         /\ UNCHANGED <<mutex, callback>>
    [] spc = "callback_declare" ->
         /\ spc' = "resume"
         /\ UNCHANGED <<mutex, callback>>

\* Faulty wrapper: calls the callback only if its DeclareQueues succeeded.
AfterDeclareSkipCallback(err) ==
  CASE spc = "connect_declare" ->
         /\ mutex' = "free"
         /\ spc' = IF err = "nil" THEN "wrapper_declare" ELSE "connect"
         /\ callback' = IF err = "nil" THEN onReconnect ELSE callback
    [] spc = "wrapper_declare" ->
         /\ spc' = IF err = "nil" THEN "pause" ELSE "wait"
         /\ UNCHANGED <<mutex, callback>>
    [] spc = "callback_declare" ->
         /\ spc' = "resume"
         /\ UNCHANGED <<mutex, callback>>

\* Faulty handleReconnect: leaves the retry loop after a failed connect().
AfterDeclareGiveUp(err) ==
  CASE spc = "connect_declare" ->
         /\ mutex' = "free"
         /\ spc' = IF err = "nil" THEN "wrapper_declare" ELSE "wait"
         /\ callback' = IF err = "nil" THEN onReconnect ELSE callback
    [] spc = "wrapper_declare" ->
         /\ spc' = "pause"
         /\ UNCHANGED <<mutex, callback>>
    [] spc = "callback_declare" ->
         /\ spc' = "resume"
         /\ UNCHANGED <<mutex, callback>>

\* Faulty publisher callback: returns without resumePublishing when its
\* DeclareQueues failed.
AfterDeclareNoResumeOnErr(err) ==
  CASE spc = "connect_declare" ->
         /\ mutex' = "free"
         /\ spc' = IF err = "nil" THEN "wrapper_declare" ELSE "connect"
         /\ callback' = IF err = "nil" THEN onReconnect ELSE callback
    [] spc = "wrapper_declare" ->
         /\ spc' = "pause"
         /\ UNCHANGED <<mutex, callback>>
    [] spc = "callback_declare" ->
         /\ spc' = IF err = "nil" THEN "resume" ELSE "wait"
         /\ UNCHANGED <<mutex, callback>>

\* What follows DeclareQueues returning err ("nil" or "err") to its caller:
\* connect returns (unlocking s.mutex) and handleReconnect either retries or
\* runs the wrapper it reads from s.onReconnect; the wrapper logs an error
\* and calls the callback it was built around; the publisher's callback
\* ignores the result and resumes.
AfterDeclare(err) ==
  CASE spc = "connect_declare" ->
         /\ mutex' = "free"
         /\ spc' = IF err = "nil" THEN "wrapper_declare" ELSE "connect"
         /\ callback' = IF err = "nil" THEN onReconnect ELSE callback
    [] spc = "wrapper_declare" ->
         /\ spc' = "pause"
         /\ UNCHANGED <<mutex, callback>>
    [] spc = "callback_declare" ->
         /\ spc' = "resume"
         /\ UNCHANGED <<mutex, callback>>

\* DeclareQueues / DeclareQueue: one s.Channel.QueueDeclare of the loop over
\* s.queueNames.  It needs an open channel; a refused declaration closes the
\* channel and makes DeclareQueues return the error at once.
DeclareQueue(ok) ==
  /\ spc \in {"connect_declare", "wrapper_declare", "callback_declare"}
  /\ ok => Channel.open
  /\ IF ok
     THEN /\ Channel' = [Channel EXCEPT
                           !.declared = @ \cup {QueueDeclare(QueueNames[sidx])}]
          /\ IF sidx < Len(QueueNames)
             THEN /\ sidx' = sidx + 1
                  /\ UNCHANGED <<spc, mutex, callback>>
             ELSE /\ sidx' = 1
                  /\ AfterDeclare("nil")
     ELSE /\ Channel' = [Channel EXCEPT !.open = FALSE]
          /\ sidx' = 1
          /\ AfterDeclare("err")
  /\ UNCHANGED <<Conn, brokerUp, drops, messageQueue, paused, pc, amsg, batch,
                 backoff, calls, sent>>
  /\ UNCHANGED <<npc, nret, closes, onReconnect>>
  /\ UNCHANGED consumerVars

\* The wrapper calls callback() and it is the publisher's reconnect
\* callback: publisher.pausePublishing().
CallbackPause ==
  /\ spc = "pause"
  /\ callback = "publisher"
  /\ pausePublishing
  /\ spc' = "callback_declare"
  /\ UNCHANGED <<Conn, Channel, mutex, sidx, brokerUp, drops, messageQueue,
                 pc, amsg, batch, backoff, calls, sent>>
  /\ UNCHANGED <<callerVars, consumerVars>>

\* The publisher's reconnect callback: publisher.resumePublishing(); the
\* callback returns and handleReconnect waits for the next closure.
CallbackResume ==
  /\ spc = "resume"
  /\ resumePublishing
  /\ spc' = "wait"
  /\ UNCHANGED <<Conn, Channel, mutex, sidx, brokerUp, drops, messageQueue,
                 amsg, batch, calls, sent>>
  /\ UNCHANGED <<callerVars, consumerVars>>

\* The application calls SetOnReconnect(callback) with a callback of its
\* own: s.onReconnect becomes a new wrapper around that callback.
SetOnReconnect ==
  /\ onReconnect' = "app"
  /\ UNCHANGED <<npc, nret, closes, callback>>
  /\ UNCHANGED <<Conn, Channel, mutex, spc, sidx, brokerUp, drops,
                 messageQueue, paused, pc, amsg, batch, backoff, calls, sent>>
  /\ UNCHANGED consumerVars

\* The wrapper calls callback() and it is the application's: it runs and
\* returns, and handleReconnect waits for the next closure.
AppCallback ==
  /\ spc = "pause"
  /\ callback = "app"
  /\ spc' = "wait"
  /\ UNCHANGED callerVars
  /\ UNCHANGED <<Conn, Channel, mutex, sidx, brokerUp, drops, messageQueue,
                 paused, pc, amsg, batch, backoff, calls, sent>>
  /\ UNCHANGED consumerVars

\* Faulty NewChannel: asks the connection for a channel without looking at
\* its state.
NewChannelNoCheck ==
  /\ npc = "idle"
  /\ mutex = "free"
  /\ mutex' = "newchannel"
  /\ npc' = "asking"
  /\ UNCHANGED <<nret, closes, onReconnect, callback>>
  /\ UNCHANGED <<Conn, Channel, spc, sidx, brokerUp, drops, messageQueue,
                 paused, pc, amsg, batch, backoff, calls, sent>>
  /\ UNCHANGED consumerVars

\* NewChannel: lock s.mutex; `s.Conn == nil || s.Conn.IsClosed()` returns
\* amqp.ErrClosed (and unlocks); otherwise the call goes on to
\* s.Conn.Channel() with the mutex held.
NewChannelCheck ==
  /\ npc = "idle"
  /\ mutex = "free"
  /\ IF Conn = "open"
     THEN /\ mutex' = "newchannel"
          /\ npc' = "asking"
          /\ UNCHANGED nret
     ELSE /\ nret' = "ErrClosed"
          /\ UNCHANGED <<mutex, npc>>
  /\ UNCHANGED <<closes, onReconnect, callback>>
  /\ UNCHANGED <<Conn, Channel, spc, sidx, brokerUp, drops, messageQueue,
                 paused, pc, amsg, batch, backoff, calls, sent>>
  /\ UNCHANGED consumerVars

\* NewChannel, `return s.Conn.Channel()`: the connection opens a channel (ok)
\* or the request fails, as it does on a connection that closed meanwhile;
\* the deferred Unlock runs.
NewChannelOpen(ok) ==
  /\ npc = "asking"
  /\ ok => Conn = "open"
  /\ nret' = IF ok THEN "channel" ELSE "err"
  /\ npc' = "idle"
  /\ mutex' = "free"
  /\ UNCHANGED <<closes, onReconnect, callback>>
  /\ UNCHANGED <<Conn, Channel, spc, sidx, brokerUp, drops, messageQueue,
                 paused, pc, amsg, batch, backoff, calls, sent>>
  /\ UNCHANGED consumerVars

\* Close (under s.mutex): s.Channel.Close() and s.Conn.Close(); both fields
\* are non-nil once the constructor has returned and are left as they are.
\* Closing the connection closes s.notifyClose.
Close ==
  /\ mutex = "free"
  /\ closes < MaxCloses
  /\ closes' = closes + 1
  /\ Channel' = [Channel EXCEPT !.open = FALSE]
  /\ Conn' = "closed"
  /\ UNCHANGED <<npc, nret, onReconnect, callback>>
  /\ UNCHANGED <<mutex, spc, sidx, brokerUp, drops, messageQueue,
                 paused, pc, amsg, batch, backoff, calls, sent>>
  /\ UNCHANGED consumerVars

\* ----------------------------------------------------------------- consumer

\* JSON values on the wire.
JNull == [t |-> "null"]
JStr(x) == [t |-> "string", v |-> x]
JNum(n) == [t |-> "number", v |-> n]
JBool(b) == [t |-> "bool", v |-> b]
JObj(f) == [t |-> "object", v |-> f]
JArr == [t |-> "array"]
Empty == [k \in {} |-> JNull]

\* Go values held in interface{} after json.Unmarshal.
GoNil == [t |-> "nil"]

\* encoding/json into interface{}: a number becomes a float64, an object a
\* map[string]interface{} (the sample bodies nest objects two levels deep).
UnmarshalLeaf(j) ==
  CASE j.t = "null" -> GoNil
    [] j.t = "number" -> [t |-> "float64", v |-> j.v]
    [] j.t = "object" -> [t |-> "map", v |-> [k \in DOMAIN j.v |-> GoNil]]
    [] OTHER -> j

UnmarshalValue(j) ==
  IF j.t = "object"
  THEN [t |-> "map",
        v |-> [k \in DOMAIN j.v |->
                 IF j.v[k].t = "object"
                 THEN [t |-> "map",
                       v |-> [h \in DOMAIN j.v[k].v |->
                                UnmarshalLeaf(j.v[k].v[h])]]
                 ELSE UnmarshalLeaf(j.v[k])]]
  ELSE UnmarshalLeaf(j)

\* Message bodies the broker delivers.  A body is malformed text or a JSON
\* object with some of the keys event, payload, meta.
Malformed == [wellFormed |-> FALSE]
Doc(f) == [wellFormed |-> TRUE, doc |-> f]

SampleBodies ==
  << Malformed,
     \* {"event":"Created","payload":{"newData":{"id":42,"name":"x"}},
     \*  "meta":{"idField":"id","traceId":"t1","userId":7}}
     Doc([event |-> JStr("Created"),
          payload |-> JObj([newData |->
                      JObj([id |-> JNum(42), name |-> JStr("x")])]),
          meta |-> JObj([idField |-> JStr("id"), traceId |-> JStr("t1"),
                         userId |-> JNum(7)])]),
     \* {"event":"Deleted","payload":{"id":"7"},"meta":{}}
     Doc([event |-> JStr("Deleted"),
          payload |-> JObj([id |-> JStr("7")]),
          meta |-> JObj(Empty)]),
     \* {"event":"created", ...}: a kind that differs from a registered one
     \* in case only
     Doc([event |-> JStr("created"),
          payload |-> JObj([newData |-> JObj([id |-> JNum(42)])]),
          meta |-> JObj([idField |-> JStr("id")])]),
     \* {"event":"Archived","payload":{"id":"7"}}: no meta
     Doc([event |-> JStr("Archived"),
          payload |-> JObj([id |-> JStr("7")])]),
     \* {"event":"Updated","payload":{"newData":{"id":true}},
     \*  "meta":{"idField":"id"}}
     Doc([event |-> JStr("Updated"),
          payload |-> JObj([newData |-> JObj([id |-> JBool(TRUE)])]),
          meta |-> JObj([idField |-> JStr("id")])]),
     \* {"event":"Created","payload":"text"}: payload of the wrong type
     Doc([event |-> JStr("Created"), payload |-> JStr("text")]) >>

\* Envelopes built from every combination of the fields the handlers read.
\* An option is a JSON value or the absence of the key.
Absent == [has |-> FALSE]
Given(j) == [has |-> TRUE, v |-> j]

Kinds == <<"Created", "Updated", "Reindexed", "Deleted">>
IdFieldOpts == <<Absent, Given(JStr("")), Given(JStr("id")), Given(JStr("key"))>>
ActionOpts == <<Absent, Given(JStr("")), Given(JStr("CREATE"))>>
TraceOpts == <<Absent, Given(JStr("")), Given(JStr("t1"))>>
UserOpts == <<Absent, Given(JNum(0)), Given(JNum(7))>>
\* the value stored under the identifier key
IdValueOpts ==
  <<Absent, Given(JNull), Given(JNum(42)), Given(JStr("7")),
    Given(JBool(TRUE)), Given(JArr), Given(JObj(Empty))>>
\* the key the identifier is stored under, in payload and in newData
IdKeyOpts == <<"id", "key">>
\* payload.newData: absent, an object, or a string
NewDataOpts == <<"absent", "object", "string">>

\* The JSON object with the keys of fs (a sequence of [k, o]) whose option is
\* given.
Fields(fs) ==
  LET present == {i \in 1..Len(fs) : fs[i].o.has} IN
  [k \in {fs[i].k : i \in present} |->
     fs[CHOOSE i \in present : fs[i].k = k].o.v]

NumEnvelopes ==
  Len(Kinds) * Len(IdFieldOpts) * Len(ActionOpts) * Len(TraceOpts)
    * Len(UserOpts) * Len(IdValueOpts) * Len(IdKeyOpts) * Len(NewDataOpts)

\* The n-th envelope, n in 0..NumEnvelopes-1, reading n as a mixed-radix
\* number over the option lists.
Envelope(n) ==
  LET n1 == n \div Len(Kinds)
      n2 == n1 \div Len(IdFieldOpts)
      n3 == n2 \div Len(ActionOpts)
      n4 == n3 \div Len(TraceOpts)
      n5 == n4 \div Len(UserOpts)
      n6 == n5 \div Len(IdValueOpts)
      n7 == n6 \div Len(IdKeyOpts)
      kind == Kinds[(n % Len(Kinds)) + 1]
      idField == IdFieldOpts[(n1 % Len(IdFieldOpts)) + 1]
      action == ActionOpts[(n2 % Len(ActionOpts)) + 1]
      trace == TraceOpts[(n3 % Len(TraceOpts)) + 1]
      user == UserOpts[(n4 % Len(UserOpts)) + 1]
      idValue == IdValueOpts[(n5 % Len(IdValueOpts)) + 1]
      idKey == IdKeyOpts[(n6 % Len(IdKeyOpts)) + 1]
      nd == NewDataOpts[(n7 % Len(NewDataOpts)) + 1]
      newData ==
        CASE nd = "absent" -> Absent
          [] nd = "string" -> Given(JStr("text"))
          [] nd = "object" ->
               Given(JObj(Fields(<< [k |-> idKey, o |-> idValue],
                                    [k |-> "name", o |-> Given(JStr("x"))] >>)))
  IN Doc([event |-> JStr(kind),
          payload |-> JObj(Fields(<< [k |-> idKey, o |-> idValue],
                                     [k |-> "newData", o |-> newData] >>)),
          meta |-> JObj(Fields(<< [k |-> "idField", o |-> idField],
                                  [k |-> "action", o |-> action],
                                  [k |-> "traceId", o |-> trace],
                                  [k |-> "userId", o |-> user] >>))])

\* The bodies a delivery can carry: the samples, then the generated
\* envelopes.
NumBodies == Len(SampleBodies) + NumEnvelopes

Bodies ==
  [b \in 1..NumBodies |->
     IF b <= Len(SampleBodies)
     THEN SampleBodies[b]
     ELSE Envelope(b - Len(SampleBodies) - 1)]

\* json.Unmarshal(msg, &event) into struct{Event string; Payload, Meta
\* map[string]interface{}}: an absent or null key leaves the zero value, a
\* value of another type is an error.
Unmarshal(body) ==
  IF ~body.wellFormed THEN [err |-> "parse"]
  ELSE
    LET d == body.doc
        has(k) == k \in DOMAIN d /\ d[k].t # "null"
        badEvent == has("event") /\ d["event"].t # "string"
        badMap(k) == has(k) /\ d[k].t # "object"
    IN IF badEvent \/ badMap("payload") \/ badMap("meta")
       THEN [err |-> "parse"]
       ELSE [err |-> "nil",
             Event |-> IF has("event") THEN d["event"].v ELSE "",
             Payload |-> IF has("payload")
                         THEN UnmarshalValue(d["payload"]).v ELSE Empty,
             Meta |-> IF has("meta")
                      THEN UnmarshalValue(d["meta"]).v ELSE Empty]

\* strconv-style decimal digits, as fmt's %d and %.0f print a whole number.
Digit(d) ==
  CASE d = 0 -> "0" [] d = 1 -> "1" [] d = 2 -> "2" [] d = 3 -> "3"
    [] d = 4 -> "4" [] d = 5 -> "5" [] d = 6 -> "6" [] d = 7 -> "7"
    [] d = 8 -> "8" [] d = 9 -> "9"

RECURSIVE Digits(_)
Digits(n) == IF n < 10 THEN Digit(n) ELSE Digits(n \div 10) \o Digit(n % 10)

Itoa(n) == IF n < 0 THEN "-" \o Digits(0 - n) ELSE Digits(n)

\* Faulty convertToString: a bool is printed as "true" / "false".
convertToStringBool(value) ==
  CASE value.t = "string" -> [err |-> "nil", s |-> value.v]
    [] value.t = "float64" -> [err |-> "nil", s |-> Itoa(value.v)]
    [] value.t \in {"int", "int32", "int64"} ->
         [err |-> "nil", s |-> Itoa(value.v)]
    [] value.t = "bool" ->
         [err |-> "nil", s |-> IF value.v THEN "true" ELSE "false"]
    [] OTHER -> [err |-> "unsupported type", s |-> ""]

\* convertToString: the type switch over string, float64, int, int32, int64.
convertToString(value) ==
  CASE value.t = "string" -> [err |-> "nil", s |-> value.v]
    [] value.t = "float64" -> [err |-> "nil", s |-> Itoa(value.v)]
    [] value.t \in {"int", "int32", "int64"} ->
         [err |-> "nil", s |-> Itoa(value.v)]
    [] OTHER -> [err |-> "unsupported type", s |-> ""]

\* m[k].(string), m[k].(int), m[k].(map[string]interface{}) with the
\* comma-ok form: the zero value when the key is absent or of another type.
HasType(m, k, ty) == k \in DOMAIN m /\ m[k].t = ty
AsString(m, k) == IF HasType(m, k, "string") THEN m[k].v ELSE ""
AsInt(m, k) == IF HasType(m, k, "int") THEN m[k].v ELSE 0

Failed(e) == [err |-> e, handlers |-> 1, calls |-> <<>>]

\* Faulty handleCreatedOrUpdated: a missing idField defaults to "id", as in
\* handleDeleted.
handleCreatedOrUpdatedDefaultId(payload, meta, esOk) ==
  LET idField == IF AsString(meta, "idField") = ""
                 THEN "id" ELSE AsString(meta, "idField")
      action == IF AsString(meta, "action") = ""
                THEN "UPDATE" ELSE AsString(meta, "action")
      traceID == AsString(meta, "traceId")
      userID == AsInt(meta, "userId")
  IN
  IF ~HasType(payload, "newData", "map")
  THEN Failed("missing or invalid newData in payload")
  ELSE
    LET newData == payload["newData"].v IN
    IF idField \notin DOMAIN newData \/ newData[idField] = GoNil
    THEN Failed("missing document ID")
    ELSE
      LET id == convertToString(newData[idField]) IN
      IF id.err # "nil" THEN Failed("invalid document ID")
      ELSE [err |-> IF esOk THEN "nil" ELSE "failed to index document",
            handlers |-> 1,
            calls |-> << [op |-> "audit", traceId |-> traceID,
                          action |-> action, resourceId |-> id.s,
                          userId |-> userID],
                         [op |-> "upsert", id |-> id.s, doc |-> newData] >>]

\* Faulty handleCreatedOrUpdated: the action defaults to "CREATE" and the
\* document is indexed before the audit entry is written.
handleCreatedOrUpdatedIndexFirst(payload, meta, esOk) ==
  LET idField == AsString(meta, "idField")
      action == IF AsString(meta, "action") = ""
                THEN "CREATE" ELSE AsString(meta, "action")
      traceID == AsString(meta, "traceId")
      userID == AsInt(meta, "userId")
  IN
  IF idField = "" THEN Failed("invalid or missing idField")
  ELSE IF ~HasType(payload, "newData", "map")
  THEN Failed("missing or invalid newData in payload")
  ELSE
    LET newData == payload["newData"].v IN
    IF idField \notin DOMAIN newData \/ newData[idField] = GoNil
    THEN Failed("missing document ID")
    ELSE
      LET id == convertToString(newData[idField]) IN
      IF id.err # "nil" THEN Failed("invalid document ID")
      ELSE [err |-> IF esOk THEN "nil" ELSE "failed to index document",
            handlers |-> 1,
            calls |-> << [op |-> "upsert", id |-> id.s, doc |-> newData],
                         [op |-> "audit", traceId |-> traceID,
                          action |-> action, resourceId |-> id.s,
                          userId |-> userID] >>]

\* handleCreatedOrUpdated.  esOk is whether the document-store request of
\* indexDocument succeeds; a failed audit write is only logged.
handleCreatedOrUpdated(payload, meta, esOk) ==
  LET idField == AsString(meta, "idField")
      action == IF AsString(meta, "action") = ""
                THEN "UPDATE" ELSE AsString(meta, "action")
      traceID == AsString(meta, "traceId")
      userID == AsInt(meta, "userId")
  IN
  IF idField = "" THEN Failed("invalid or missing idField")
  ELSE IF ~HasType(payload, "newData", "map")
  THEN Failed("missing or invalid newData in payload")
  ELSE
    LET newData == payload["newData"].v IN
    IF idField \notin DOMAIN newData \/ newData[idField] = GoNil
    THEN Failed("missing document ID")
    ELSE
      LET id == convertToString(newData[idField]) IN
      IF id.err # "nil" THEN Failed("invalid document ID")
      ELSE [err |-> IF esOk THEN "nil" ELSE "failed to index document",
            handlers |-> 1,
            calls |-> << [op |-> "audit", traceId |-> traceID,
                          action |-> action, resourceId |-> id.s,
                          userId |-> userID],
                         [op |-> "upsert", id |-> id.s, doc |-> newData] >>]

\* handleDeleted.  esOk is whether the request of deleteDocument succeeds.
handleDeleted(payload, meta, esOk) ==
  LET idField == IF HasType(meta, "idField", "string")
                 THEN meta["idField"].v ELSE "id"
      traceID == AsString(meta, "traceId")
      userID == AsInt(meta, "userId")
  IN
  IF idField \notin DOMAIN payload \/ payload[idField] = GoNil
  THEN Failed("missing document ID")
  ELSE
    LET id == convertToString(payload[idField]) IN
    IF id.err # "nil" THEN Failed("invalid document ID")
    ELSE [err |-> IF esOk THEN "nil" ELSE "failed to delete document",
          handlers |-> 1,
          calls |->
            (IF traceID # "" /\ userID # 0
             THEN << [op |-> "audit", traceId |-> traceID,
                      action |-> "DELETE", resourceId |-> id.s,
                      userId |-> userID] >>
             ELSE << >>)
            \o << [op |-> "delete", id |-> id.s] >>]

\* c.handlers as NewConsumerService fills it: event kind -> handler.
Handlers ==
  [Created |-> "handleCreatedOrUpdated", Updated |-> "handleCreatedOrUpdated",
   Deleted |-> "handleDeleted", Reindexed |-> "handleCreatedOrUpdated"]

\* The registered kind that equals kind when letter case is ignored, for the
\* kinds of the sample bodies.
FoldKind(kind) == IF kind = "created" THEN "Created" ELSE kind

Dispatch(kind, event, esOk) ==
  IF Handlers[kind] = "handleDeleted"
  THEN handleDeleted(event.Payload, event.Meta, esOk)
  ELSE handleCreatedOrUpdated(event.Payload, event.Meta, esOk)

\* Faulty processMessage: looks the event kind up ignoring letter case.
processMessageFold(body, esOk) ==
  LET event == Unmarshal(body) IN
  IF event.err # "nil"
  THEN [err |-> "failed to parse message", handlers |-> 0, calls |-> <<>>]
  ELSE IF FoldKind(event.Event) \notin DOMAIN Handlers
  THEN [err |-> "nil", handlers |-> 0, calls |-> <<>>]
  ELSE Dispatch(FoldKind(event.Event), event, esOk)

\* processMessage: decode, look the handler up by event kind, call it; an
\* unknown kind returns nil.  The result carries the number of handlers
\* invoked and the document-store and audit requests made.
processMessage(body, esOk) ==
  LET event == Unmarshal(body) IN
  IF event.err # "nil"
  THEN [err |-> "failed to parse message", handlers |-> 0, calls |-> <<>>]
  ELSE IF event.Event \notin DOMAIN Handlers
  THEN [err |-> "nil", handlers |-> 0, calls |-> <<>>]
  ELSE Dispatch(event.Event, event, esOk)

\* StartConsumer dispatcher: `for msg := range msgs` receives the next
\* delivery; the broker has one ready whenever the dispatcher asks, so a
\* burst of any size and order can arrive.
Pull(b) ==
  /\ pulled = 0
  /\ pulled' = b
  /\ UNCHANGED <<workerChan, tasks>>
  /\ UNCHANGED brokerVars

NewTask(b) ==
  [body |-> b, st |-> "spawned", err |-> "nil", handlers |-> 0,
   calls |-> <<>>, decisions |-> <<>>]

\* Faulty dispatcher: starts the goroutine without waiting for room in
\* workerChan.
StartTaskUnbounded ==
  /\ pulled # 0
  /\ workerChan' = workerChan + 1
  /\ tasks' = Append(tasks, NewTask(pulled))
  /\ pulled' = 0
  /\ UNCHANGED brokerVars

\* StartConsumer dispatcher: `workerChan <- true` blocks while the channel
\* holds `concurrency` tokens; then `go func(m amqp.Delivery)` starts.
StartTask ==
  /\ pulled # 0
  /\ workerChan < Concurrency
  /\ workerChan' = workerChan + 1
  /\ tasks' = Append(tasks, NewTask(pulled))
  /\ pulled' = 0
  /\ UNCHANGED brokerVars

\* The goroutine is scheduled and calls c.processMessage(m.Body).
TaskRun(i) ==
  /\ tasks[i].st = "spawned"
  /\ tasks' = [tasks EXCEPT ![i].st = "running"]
  /\ UNCHANGED <<workerChan, pulled>>
  /\ UNCHANGED brokerVars

\* processMessage returns.
TaskProcessed(i, esOk) ==
  /\ tasks[i].st = "running"
  /\ LET r == processMessage(Bodies[tasks[i].body], esOk) IN
     tasks' = [tasks EXCEPT ![i].st = "acking",
                            ![i].err = r.err,
                            ![i].handlers = r.handlers,
                            ![i].calls = r.calls]
  /\ UNCHANGED <<workerChan, pulled>>
  /\ UNCHANGED brokerVars

\* Faulty goroutine: acknowledges whatever processMessage returned.
TaskAckAlways(i) ==
  /\ tasks[i].st = "acking"
  /\ tasks' = [tasks EXCEPT ![i].st = "releasing",
                            ![i].decisions = Append(@, "ack")]
  /\ UNCHANGED <<workerChan, pulled>>
  /\ UNCHANGED brokerVars

\* Faulty goroutine: acknowledges a delivery that failed to decode and
\* requeues only on a handler error.
TaskAckDropUndecodable(i) ==
  /\ tasks[i].st = "acking"
  /\ tasks' = [tasks EXCEPT
       ![i].st = "releasing",
       ![i].decisions =
          Append(@, IF tasks[i].err \notin {"nil", "failed to parse message"}
                    THEN "nack_requeue" ELSE "ack")]
  /\ UNCHANGED <<workerChan, pulled>>
  /\ UNCHANGED brokerVars

\* m.Nack(false, true) on an error, m.Ack(false) otherwise.
TaskAck(i) ==
  /\ tasks[i].st = "acking"
  /\ tasks' = [tasks EXCEPT
       ![i].st = "releasing",
       ![i].decisions =
          Append(@, IF tasks[i].err # "nil" THEN "nack_requeue" ELSE "ack")]
  /\ UNCHANGED <<workerChan, pulled>>
  /\ UNCHANGED brokerVars

\* Faulty goroutine: takes its token back only if processMessage returned
\* nil.
TaskReleaseOnSuccess(i) ==
  /\ tasks[i].st = "releasing"
  /\ workerChan' = IF tasks[i].err = "nil" THEN workerChan - 1 ELSE workerChan
  /\ tasks' = SubSeq(tasks, 1, i - 1) \o SubSeq(tasks, i + 1, Len(tasks))
  /\ UNCHANGED pulled
  /\ UNCHANGED brokerVars

\* The deferred `<-workerChan` runs and the goroutine ends.
TaskRelease(i) ==
  /\ tasks[i].st = "releasing"
  /\ workerChan' = workerChan - 1
  /\ tasks' = SubSeq(tasks, 1, i - 1) \o SubSeq(tasks, i + 1, Len(tasks))
  /\ UNCHANGED pulled
  /\ UNCHANGED brokerVars

\* ------------------------------------------------------------ specification

\* NewRabbitMQService has connected and declared the queues, and
\* NewRabbitMQPublisher has installed its callback and started loop 1.
BrokerInit ==
  /\ Conn = "open"
  /\ Channel = [open |-> TRUE,
                declared |-> {QueueDeclare(q) : q \in AllQueues}]
  /\ mutex = "free"
  /\ spc = "wait"
  /\ sidx = 1
  /\ brokerUp = TRUE
  /\ drops = 0
  /\ messageQueue = <<>>
  /\ paused = FALSE
  /\ pc = [t \in Threads |->
             IF t = App THEN "idle" ELSE IF t = 1 THEN "sleep" ELSE "off"]
  /\ amsg = NoMsg
  /\ batch = [l \in Loops |-> <<>>]
  /\ backoff = [l \in Loops |-> RetryInterval]
  /\ calls = <<>>
  /\ sent = <<>>
  /\ npc = "idle"
  /\ nret = "none"
  /\ closes = 0
  /\ onReconnect = "publisher"
  /\ callback = "publisher"

ConsumerIdle ==
  /\ workerChan = 0
  /\ tasks = <<>>
  /\ pulled = 0

Init == BrokerInit /\ ConsumerIdle

Next ==
  \/ \E m \in Messages : AppPublish(m)
  \/ \E t \in Threads : PublishSend(t)
  \/ \E t \in Threads : PublishQueue(t)
  \/ \E l \in Loops : RetryWake(l)
  \/ \E l \in Loops : RetrySwap(l)
  \/ \E l \in Loops : RetryPublish(l)
  \/ \E l \in Loops : RetryRequeue(l)
  \/ Drop
  \/ BrokerRecover
  \/ NotifyClose
  \/ ConnectFail
  \/ ConnectDial
  \/ \E ok \in BOOLEAN : DeclareQueue(ok)
  \/ CallbackPause
  \/ CallbackResume

Spec == Init /\ [][Next]_vars

\* The fairness of the Go scheduler on the retry loops: a loop that can take
\* its next step eventually takes it.  Nothing is assumed of the application,
\* of the broker or of the reconnect loop.
LoopStep(l) ==
  \/ RetryWake(l)
  \/ RetrySwap(l)
  \/ RetryPublish(l)
  \/ PublishSend(l)
  \/ PublishQueue(l)
  \/ RetryRequeue(l)

LiveSpec == Spec /\ \A l \in Loops : WF_vars(LoopStep(l))

\* ------------------------------------------------------------------ helpers

InSeq(m, s) == \E i \in 1..Len(s) : s[i] = m

\* m is held by the publisher or was accepted by the broker: it is in the
\* retry buffer, in the batch a retry cycle is working on, or in `sent`.
InCustody(m) ==
  \/ InSeq(m, messageQueue)
  \/ \E l \in Loops : InSeq(m, batch[l])
  \/ InSeq(m, sent)

\* Call i was deferred (buffered) and its (queue, body) pair was published by
\* no other call.
DeferredOnce(i) ==
  /\ calls[i].ret = "err"
  /\ \A k \in 1..Len(calls) : calls[k].msg = calls[i].msg => k = i

\* The broker takes sends and the publisher is not paused.
Stable == Channel.open /\ ~paused

Drained == messageQueue = <<>> /\ \A l \in Loops : batch[l] = <<>>

\* ------------------------------------------------------------------- claims

\* C1: messages buffered by successive publish calls to the same queue are
\* delivered to the broker in call order: a later-called one is never
\* accepted by the broker before the earlier-called one has been.
C1_FifoPerQueue ==
  \A i, j \in 1..Len(calls) :
    ( /\ i < j
      /\ DeferredOnce(i)
      /\ DeferredOnce(j)
      /\ calls[i].msg.QueueName = calls[j].msg.QueueName )
    => \A k \in 1..Len(sent) :
         sent[k] = calls[j].msg
           => \E h \in 1..(k - 1) : sent[h] = calls[i].msg

\* C2: a retry loop's send is accepted only on a channel on which every
\* configured queue has been declared.
C2_DeclaredBeforeRetry ==
  [][ \A l \in Loops :
        (pc[l] = "pub_send" /\ pc'[l] # "pub_send" /\ sent' # sent)
          => DeclaredOn(Channel) = AllQueues ]_vars

\* C6: the retry buffer never holds the same (queue, body) pair twice.
C6_NoDuplicates ==
  \A i, j \in 1..Len(messageQueue) :
    i # j => messageQueue[i] # messageQueue[j]

\* C6 witness: the same pair was published twice, both calls were deferred,
\* publishing is still paused and the buffer holds the pair.
C6_Witness ==
  /\ paused
  /\ Len(calls) >= 2
  /\ calls[1].msg = calls[2].msg
  /\ calls[1].ret = "err"
  /\ calls[2].ret = "err"
  /\ InSeq(calls[1].msg, messageQueue)

\* C7: a pair that is in the buffer, in a retry batch or sent stays in one of
\* the three: a retry cycle gives an entry up only once the broker took it.
C7_NeverLost ==
  [][ \A m \in Messages : InCustody(m) => InCustody(m)' ]_vars

\* C7 witness: a retry loop's re-publish failed, and the entry it is about to
\* re-queue is back in the buffer.
C7_Witness ==
  \E l \in Loops :
    /\ pc[l] = "requeue"
    /\ InSeq(Head(batch[l]), messageQueue)
    /\ ~InSeq(Head(batch[l]), sent)

\* C8: if from some point on the broker takes every send and publishing is
\* not paused, every buffered message is eventually sent and the buffer and
\* the retry batches end up empty for good.
C8_EventuallyDelivered ==
  (<>[]Stable) =>
     /\ <>[]Drained
     /\ \A m \in Messages : InSeq(m, messageQueue) ~> InSeq(m, sent)

\* C8 witness: a deferred publish has been sent by a retry loop, the broker
\* is taking sends and nothing is left to retry.
C8_Witness ==
  /\ Stable
  /\ Drained
  /\ \E i \in 1..Len(calls) : calls[i].ret = "err" /\ InSeq(calls[i].msg, sent)

\* C9: no send is attempted at a moment when the paused flag is set.
C9_NoSendWhilePaused ==
  [][ \A t \in Threads :
        (pc[t] = "pub_send" /\ pc'[t] # "pub_send") => ~paused ]_vars

\* C10: an application publish returns nil exactly when it read the flag as
\* not paused and its send was accepted, and then it leaves the buffer alone;
\* otherwise it returns the error and the pair is in the buffer as it returns.
C10_PublishResult ==
  [][ (Len(calls') = Len(calls) + 1) =>
        LET r == calls'[Len(calls')] IN
        /\ (r.ret = "nil") <=> (pc[App] = "pub_send" /\ Channel.open)
        /\ (r.ret = "nil") => (messageQueue' = messageQueue)
        /\ (r.ret # "nil") => InSeq(r.msg, messageQueue') ]_vars

\* C10 witness: one call has returned nil and another the deferred error.
C10_Witness ==
  /\ \E i \in 1..Len(calls) : calls[i].ret = "nil"
  /\ \E i \in 1..Len(calls) :
       calls[i].ret = "err" /\ InSeq(calls[i].msg, messageQueue)

\* Deliveries whose processMessage call has started and not returned.
Running == {i \in 1..Len(tasks) : tasks[i].st = "running"}

\* The goroutine of delivery i is past its Ack / Nack call.
Decided(i) == tasks[i].st = "releasing"

\* C3: at most `concurrency` deliveries are inside processMessage at once.
C3_AtMostKActive == Cardinality(Running) <= Concurrency

\* C3 witness: `concurrency` deliveries are being processed and the
\* dispatcher holds a further one, waiting for a slot.
C3_Witness == Cardinality(Running) = Concurrency /\ pulled # 0

\* C4: a delivery gets no decision before processMessage has returned and
\* exactly one after: a negative acknowledgement with requeue if it returned
\* an error, a positive one if it returned nil.
C4_OneDecision ==
  \A i \in 1..Len(tasks) :
    tasks[i].decisions =
      IF Decided(i)
      THEN << IF tasks[i].err # "nil" THEN "nack_requeue" ELSE "ack" >>
      ELSE << >>

\* C4 witness: one delivery whose handler failed has been requeued and one
\* whose handler succeeded has been acknowledged.
C4_Witness ==
  /\ \E i \in 1..Len(tasks) :
       /\ tasks[i].st = "releasing"
       /\ tasks[i].handlers = 1
       /\ tasks[i].err # "nil"
       /\ tasks[i].decisions = <<"nack_requeue">>
  /\ \E i \in 1..Len(tasks) :
       /\ tasks[i].st = "releasing"
       /\ tasks[i].handlers = 1
       /\ tasks[i].err = "nil"
       /\ tasks[i].decisions = <<"ack">>

\* The event kind of a body that decodes, "" for one that does not.
KindOf(b) ==
  IF Unmarshal(Bodies[b]).err = "nil" THEN Unmarshal(Bodies[b]).Event ELSE ""

\* Body b decodes to an envelope whose kind is none of the registered ones.
UnknownKind(b) ==
  /\ Unmarshal(Bodies[b]).err = "nil"
  /\ KindOf(b) \notin {"Created", "Updated", "Deleted", "Reindexed"}

\* C5: for a delivery of an unknown kind no handler runs, no document-store
\* or audit request is made, and the one decision it gets is a positive
\* acknowledgement.
C5_UnknownKindAcked ==
  \A i \in 1..Len(tasks) :
    UnknownKind(tasks[i].body) =>
      /\ tasks[i].handlers = 0
      /\ tasks[i].calls = << >>
      /\ tasks[i].decisions = IF Decided(i) THEN <<"ack">> ELSE << >>

\* C5 witness: a delivery whose kind differs from a registered one in letter
\* case only has been processed and acknowledged.
C5_Witness ==
  \E i \in 1..Len(tasks) :
    /\ KindOf(tasks[i].body) = "created"
    /\ tasks[i].st = "releasing"
    /\ tasks[i].decisions = <<"ack">>

\* The consumer dispatcher on its own: the broker connection is up and the
\* publisher idle.
ConsumerNext ==
  \/ \E b \in 1..Len(SampleBodies) : Pull(b)
  \/ StartTask
  \/ \E i \in 1..Len(tasks) : TaskRun(i)
  \/ \E i \in 1..Len(tasks) : \E esOk \in BOOLEAN : TaskProcessed(i, esOk)
  \/ \E i \in 1..Len(tasks) : TaskAck(i)
  \/ \E i \in 1..Len(tasks) : TaskRelease(i)

ConsumerSpec == Init /\ [][ConsumerNext]_vars

\* The dispatcher fed one delivery at a time (the next one arrives when the
\* goroutine of the previous one has ended), over every body of Bodies.
PullAlone ==
  /\ tasks = <<>>
  /\ pulled = 0
  /\ \E b \in 1..NumBodies : Pull(b)

HandlerNext ==
  \/ PullAlone
  \/ StartTask
  \/ \E i \in 1..Len(tasks) : TaskRun(i)
  \/ \E i \in 1..Len(tasks) : \E esOk \in BOOLEAN : TaskProcessed(i, esOk)
  \/ \E i \in 1..Len(tasks) : TaskAck(i)
  \/ \E i \in 1..Len(tasks) : TaskRelease(i)

HandlerSpec == Init /\ [][HandlerNext]_vars

\* The connection manager with the publisher's reconnect callback installed,
\* the broker, and an application that calls NewChannel and Close; nothing is
\* published.
ManagerNext ==
  \/ Drop
  \/ BrokerRecover
  \/ NotifyClose
  \/ ConnectFail
  \/ ConnectDial
  \/ \E ok \in BOOLEAN : DeclareQueue(ok)
  \/ CallbackPause
  \/ CallbackResume
  \/ NewChannelCheck
  \/ \E ok \in BOOLEAN : NewChannelOpen(ok)
  \/ Close
  \/ SetOnReconnect
  \/ AppCallback

ManagerSpec == Init /\ [][ManagerNext]_vars

\* A step of the handleReconnect goroutine.
ReconnectStep ==
  \/ NotifyClose
  \/ ConnectDial
  \/ \E ok \in BOOLEAN : DeclareQueue(ok)
  \/ CallbackPause
  \/ CallbackResume
  \/ AppCallback

\* The Go scheduler runs the handleReconnect goroutine whenever it can take
\* a step; sync.Mutex hands s.mutex to a waiting connect() even when other
\* callers keep taking it; a NewChannel call that holds s.mutex returns.
ManagerLiveSpec ==
  /\ ManagerSpec
  /\ WF_vars(ReconnectStep)
  /\ SF_vars(ConnectDial)
  /\ WF_vars(\E ok \in BOOLEAN : NewChannelOpen(ok))

\* ------------------------------------------- claims on backoff and reconnect

\* The wait that follows a wait of w seconds in the schedule 5, 10, 20, 30,
\* 30, ...
NextWait(w) == CASE w = 5 -> 10 [] w = 10 -> 20 [] OTHER -> 30

\* Loop l ends a retry cycle that had taken a non-empty buffer.
EndsCycle(l) == pc[l] \in {"pub_send", "requeue"} /\ pc'[l] = "sleep"

\* Loop l ends a cycle that found the buffer empty.
FindsEmpty(l) == pc[l] = "swap" /\ pc'[l] = "sleep"

\* C11: a retry loop starts with a wait of 5s; the wait after a cycle that
\* took a non-empty buffer is the next of 5, 10, 20, 30, 30, ...; the wait
\* after a cycle that found the buffer empty is 5s again; nothing else
\* changes the wait of a running loop.
C11_BackoffSchedule ==
  /\ backoff[1] = 5
  /\ [][ \A l \in Loops :
           /\ (pc[l] = "off" /\ pc'[l] # "off") => backoff'[l] = 5
           /\ EndsCycle(l) => backoff'[l] = NextWait(backoff[l])
           /\ FindsEmpty(l) => backoff'[l] = 5
           /\ (pc[l] # "off" /\ ~EndsCycle(l) /\ ~FindsEmpty(l))
                => backoff'[l] = backoff[l] ]_vars

\* C11 witness: a loop whose cycles kept failing waits the capped 30s with
\* the buffer still non-empty.
C11_Witness ==
  \E l \in Loops :
    pc[l] = "sleep" /\ backoff[l] = 30 /\ messageQueue # <<>>

\* C12: a resumePublishing that finds the buffer non-empty itself starts a
\* retry cycle: some retry loop is, as the resume returns, at the point where
\* it takes the buffer, with no timer to wait for.
C12_ResumeRetriesAtOnce ==
  [][ (spc = "resume" /\ spc' = "wait" /\ messageQueue # <<>>)
        => \E l \in Loops : pc[l] \in {"off", "sleep"} /\ pc'[l] = "swap" ]_vars

\* The manager is rebuilding the connection: handleReconnect is in its inner
\* loop, before or inside a connect() attempt.
Rebuilding == spc \in {"connect", "connect_declare"}

\* C13: publishing is paused for as long as the manager is rebuilding the
\* connection; no connect attempt runs while the publisher is unpaused.
C13_PausedWhileRebuilding == Rebuilding => paused

\* A connect() attempt returns an error after it had dialled: its
\* DeclareQueues failed.
ConnectDeclareFails == spc = "connect_declare" /\ spc' = "connect"

\* A connect() attempt returns nil.
ConnectSucceeds == spc = "connect_declare" /\ spc' = "wrapper_declare"

\* C14: when a connect() attempt fails on a queue declaration, the manager's
\* connection is not the one that attempt opened: it is still the closed one
\* the reconnect started from, and its channel is not usable.
C14_FailedAttemptNotExposed ==
  [][ ConnectDeclareFails => (Conn' = "closed" /\ ~Channel'.open) ]_vars

\* C15: when connect() returns nil, every configured queue is declared
\* durable, non-exclusive and non-auto-delete on the manager's channel; an
\* attempt gets past dialling only if the broker accepts the connection.
C15_ConnectDeclaresAll ==
  [][ /\ ConnectSucceeds =>
           \A q \in AllQueues :
             \E d \in Channel'.declared :
               d.name = q /\ d.durable /\ ~d.exclusive /\ ~d.autoDelete
      /\ (spc = "connect" /\ ~brokerUp) => spc' = "connect" ]_vars

\* C15 witness: after a lost connection a connect() has just returned nil
\* with both queues declared on the new channel.
C15_Witness ==
  /\ spc = "wrapper_declare"
  /\ sidx = 1
  /\ drops + closes >= 1
  /\ DeclaredOn(Channel) = AllQueues

\* C16: NewChannel asks the connection for a channel exactly when the
\* connection is open as it looks; on a closed connection it returns
\* ErrClosed at once.  A call that asks returns the channel the connection
\* opened, or the error of the request, and connect() installs no other
\* connection while the call is under way.
C16_NewChannel ==
  [][ /\ (npc = "idle" /\ npc' = "asking") => Conn = "open"
      /\ (npc = "idle" /\ Conn # "open") => npc' = "idle"
      /\ (npc = "idle" /\ nret' # nret) =>
           (Conn # "open" /\ nret' = "ErrClosed")
      /\ (npc = "asking" /\ npc' = "idle") =>
           /\ nret' \in {"channel", "err"}
           /\ nret' = "channel" => Conn = "open"
      /\ npc = "asking" => ~(spc = "connect" /\ spc' # "connect") ]_vars

\* C16 witness: one call found the connection closed and returned ErrClosed;
\* after the reconnect a further call is asking the new connection.
C16_Witness ==
  /\ nret = "ErrClosed"
  /\ npc = "asking"
  /\ Conn = "open"
  /\ drops + closes >= 1

\* C17: a Close call that follows a completed Close call changes neither the
\* manager's connection nor its channel.
C17_CloseIdempotent ==
  [][ (closes >= 1 /\ closes' = closes + 1)
        => (Conn' = Conn /\ Channel' = Channel) ]_vars

\* C18: once Close has been called the manager has no live connection.
C18_StaysClosed == closes >= 1 => Conn = "closed"

\* The reconnect callback is invoked: the wrapper calls callback().
Invoked == spc # "pause" /\ spc' = "pause"

\* C19: the callback is invoked only by the wrapper that runs after a
\* successful connect(), with every configured queue declared on the channel
\* that connect() installed; the wrapper ends in nothing but the invocation,
\* the callback returns to the wait for the next closure, and every
\* successful connect() is followed by the invocation.
C19_CallbackOncePerReconnect ==
  /\ [][ /\ Invoked =>
              (spc = "wrapper_declare" /\ DeclaredOn(Channel') = AllQueues)
         /\ (spc # "wrapper_declare" /\ spc' = "wrapper_declare") =>
              spc = "connect_declare"
         /\ (spc = "wrapper_declare" /\ spc' # "wrapper_declare") =>
              spc' = "pause"
         /\ (spc = "resume" /\ spc' # "resume") => spc' = "wait" ]_vars
  /\ (spc = "wrapper_declare") ~> (spc = "pause")

\* C19 witness: the callback is running after a reconnect whose wrapper
\* failed to re-declare the queues: the channel connect() installed has both
\* queues declared and is closed.
C19_Witness ==
  /\ spc = "pause"
  /\ DeclaredOn(Channel) = AllQueues
  /\ ~Channel.open
  /\ Conn = "open"

\* The manager is connected and waits for the next closure.
Connected == spc = "wait" /\ Conn = "open"

\* The broker refuses a queue declaration on an open channel.
Refused == DeclareQueue(FALSE) /\ Channel.open

Undecodable(b) == Unmarshal(Bodies[b]).err # "nil"

\* C21: a delivery whose body does not decode reaches no handler and gets
\* one decision, a negative acknowledgement with requeue, the decision a
\* handler error gets.
C21_DecodeFailureRequeued ==
  \A i \in 1..Len(tasks) :
    Undecodable(tasks[i].body) =>
      /\ tasks[i].handlers = 0
      /\ tasks[i].decisions =
           IF Decided(i) THEN <<"nack_requeue">> ELSE << >>

\* C21 witness: a malformed delivery and one whose handler failed have both
\* been requeued.
C21_Witness ==
  /\ \E i \in 1..Len(tasks) :
       /\ ~Bodies[tasks[i].body].wellFormed
       /\ tasks[i].err = "failed to parse message"
       /\ tasks[i].decisions = <<"nack_requeue">>
  /\ \E i \in 1..Len(tasks) :
       /\ tasks[i].handlers = 1
       /\ tasks[i].decisions = <<"nack_requeue">>

\* C22: a delivery with a malformed body is acknowledged, so that the broker
\* drops it and does not deliver it again.
C22_MalformedDropped ==
  \A i \in 1..Len(tasks) :
    (~Bodies[tasks[i].body].wellFormed /\ Decided(i))
      => tasks[i].decisions = <<"ack">>

\* processMessage has returned for delivery i.
Processed(i) == tasks[i].st \in {"acking", "releasing"}

\* JSON object o has key k with a value of JSON type ty.
HasKey(o, k, ty) == o.t = "object" /\ k \in DOMAIN o.v /\ o.v[k].t = ty

\* Body b is a JSON object whose event is one of kinds.
OfKind(b, kinds) ==
  /\ Bodies[b].wellFormed
  /\ "event" \in DOMAIN Bodies[b].doc
  /\ Bodies[b].doc.event.t = "string"
  /\ Bodies[b].doc.event.v \in kinds

\* The member k of the envelope of body b as a JSON value, an empty object
\* when the envelope has none.
Part(b, k) ==
  IF k \in DOMAIN Bodies[b].doc THEN Bodies[b].doc[k] ELSE JObj(Empty)

\* The canonical string of a JSON string or whole number.
Canon(j) == IF j.t = "string" THEN j.v ELSE ToString(j.v)

\* Body b is a Created, Updated or Reindexed envelope whose metadata names
\* an identifier field that payload.newData holds as a string or a number.
UpsertCase(b) ==
  /\ OfKind(b, {"Created", "Updated", "Reindexed"})
  /\ HasKey(Part(b, "meta"), "idField", "string")
  /\ Part(b, "meta").v.idField.v # ""
  /\ HasKey(Part(b, "payload"), "newData", "object")
  /\ LET f == Part(b, "meta").v.idField.v
         nd == Part(b, "payload").v.newData
     IN f \in DOMAIN nd.v /\ nd.v[f].t \in {"string", "number"}

\* The identifier of an UpsertCase body, as the JSON value on the wire.
UpsertId(b) ==
  Part(b, "payload").v.newData.v[Part(b, "meta").v.idField.v]

\* The action an audit entry for body b is to carry.
WireAction(b) ==
  IF HasKey(Part(b, "meta"), "action", "string")
       /\ Part(b, "meta").v.action.v # ""
  THEN Part(b, "meta").v.action.v
  ELSE "UPDATE"

\* C23: for a Created, Updated or Reindexed envelope with a resolvable
\* identifier the handler makes two requests, in this order: an audit entry
\* with the identifier's canonical string as resourceId and the metadata's
\* action ("UPDATE" when absent or empty), and an upsert of newData under
\* the same identifier string.
C23_AuditThenUpsert ==
  \A i \in 1..Len(tasks) :
    (Processed(i) /\ UpsertCase(tasks[i].body)) =>
      LET b == tasks[i].body
          c == tasks[i].calls
      IN /\ Len(c) = 2
         /\ c[1].op = "audit"
         /\ c[1].resourceId = Canon(UpsertId(b))
         /\ c[1].action = WireAction(b)
         /\ c[2].op = "upsert"
         /\ c[2].id = Canon(UpsertId(b))
         /\ DOMAIN c[2].doc = DOMAIN Part(b, "payload").v.newData.v

\* C23 witness: the envelope with identifier 42 and no action has produced
\* the audit entry for "42" with action "UPDATE" and the upsert of "42".
C23_Witness ==
  \E i \in 1..Len(tasks) :
    /\ Processed(i)
    /\ UpsertCase(tasks[i].body)
    /\ UpsertId(tasks[i].body) = JNum(42)
    /\ Len(tasks[i].calls) = 2
    /\ tasks[i].calls[1].resourceId = "42"
    /\ tasks[i].calls[1].action = "UPDATE"
    /\ tasks[i].calls[2].id = "42"

\* C24: the audit entry of a Created, Updated or Reindexed envelope carries
\* the numeric userId of the envelope's metadata.
C24_AuditUserId ==
  \A i \in 1..Len(tasks) :
    ( /\ Processed(i)
      /\ UpsertCase(tasks[i].body)
      /\ HasKey(Part(tasks[i].body, "meta"), "userId", "number") )
    => /\ Len(tasks[i].calls) = 2
       /\ tasks[i].calls[1].userId = Part(tasks[i].body, "meta").v.userId.v

\* The identifier field handleDeleted is to read for body b.
DeleteField(b) ==
  IF HasKey(Part(b, "meta"), "idField", "string")
  THEN Part(b, "meta").v.idField.v
  ELSE "id"

\* Body b is a Deleted envelope whose payload holds the identifier field as
\* a string or a number.
DeleteCase(b) ==
  /\ OfKind(b, {"Deleted"})
  /\ Part(b, "payload").t = "object"
  /\ DeleteField(b) \in DOMAIN Part(b, "payload").v
  /\ Part(b, "payload").v[DeleteField(b)].t \in {"string", "number"}

DeleteId(b) == Part(b, "payload").v[DeleteField(b)]

\* The metadata of body b carries a non-empty traceId and a non-zero userId.
AuditDue(b) ==
  /\ HasKey(Part(b, "meta"), "traceId", "string")
  /\ Part(b, "meta").v.traceId.v # ""
  /\ HasKey(Part(b, "meta"), "userId", "number")
  /\ Part(b, "meta").v.userId.v # 0

\* C25: for a Deleted envelope the handler writes an audit entry with action
\* "DELETE" exactly when the metadata carries a non-empty traceId and a
\* non-zero userId, and then removes the document whose id is the string
\* form of the payload's identifier field.
C25_DeleteAudited ==
  \A i \in 1..Len(tasks) :
    (Processed(i) /\ DeleteCase(tasks[i].body)) =>
      LET b == tasks[i].body
          c == tasks[i].calls
      IN /\ Len(c) = IF AuditDue(b) THEN 2 ELSE 1
         /\ AuditDue(b) => (c[1].op = "audit" /\ c[1].action = "DELETE")
         /\ c[Len(c)].op = "delete"
         /\ c[Len(c)].id = Canon(DeleteId(b))

\* The payload and the metadata of body b are JSON objects (or absent), so
\* that the body decodes into the envelope.
Decodes(b) == Part(b, "payload").t = "object" /\ Part(b, "meta").t = "object"

\* Body b is a Created, Updated or Reindexed envelope with no usable
\* idField in its metadata, no newData object in its payload, or a newData
\* that lacks the named identifier.
NoIdentifier(b) ==
  /\ OfKind(b, {"Created", "Updated", "Reindexed"})
  /\ Decodes(b)
  /\ \/ ~HasKey(Part(b, "meta"), "idField", "string")
     \/ Part(b, "meta").v.idField.v = ""
     \/ ~HasKey(Part(b, "payload"), "newData", "object")
     \/ Part(b, "meta").v.idField.v
           \notin DOMAIN Part(b, "payload").v.newData.v

\* C26: for such an envelope the handler returns an error having made no
\* audit and no upsert request, and the delivery is negatively acknowledged
\* with requeue.
C26_MissingIdentifierFails ==
  \A i \in 1..Len(tasks) :
    (Processed(i) /\ NoIdentifier(tasks[i].body)) =>
      /\ tasks[i].handlers = 1
      /\ tasks[i].err # "nil"
      /\ tasks[i].calls = << >>
      /\ Decided(i) => tasks[i].decisions = <<"nack_requeue">>

\* C26 witness: a Reindexed envelope with an idField and no newData has been
\* requeued.
C26_Witness ==
  \E i \in 1..Len(tasks) :
    /\ OfKind(tasks[i].body, {"Reindexed"})
    /\ HasKey(Part(tasks[i].body, "meta"), "idField", "string")
    /\ Part(tasks[i].body, "meta").v.idField.v = "id"
    /\ ~HasKey(Part(tasks[i].body, "payload"), "newData", "object")
    /\ tasks[i].err = "missing or invalid newData in payload"
    /\ tasks[i].decisions = <<"nack_requeue">>

\* Body b is an envelope of a registered kind whose handler finds a value
\* under the identifier field.
HasIdentifier(b) ==
  \/ /\ OfKind(b, {"Created", "Updated", "Reindexed"})
     /\ Decodes(b)
     /\ ~NoIdentifier(b)
  \/ /\ OfKind(b, {"Deleted"})
     /\ Part(b, "payload").t = "object"
     /\ DeleteField(b) \in DOMAIN Part(b, "payload").v

\* That value, as the JSON value on the wire.
Identifier(b) ==
  IF OfKind(b, {"Deleted"}) THEN DeleteId(b) ELSE UpsertId(b)

\* C27: convertToString returns a string unchanged and a whole number of
\* type float64, int, int32 or int64 as its decimal digits, and fails with
\* "unsupported type" for a value of any other type; an envelope whose
\* identifier is a string or a number ends in the upsert or delete of its
\* string form, and one whose identifier is of another type fails with no
\* request made.
C27_IdentifierCoercion ==
  /\ convertToString([t |-> "string", v |-> "7"]) = [err |-> "nil", s |-> "7"]
  /\ \A ty \in {"float64", "int", "int32", "int64"} :
       convertToString([t |-> ty, v |-> 42]) = [err |-> "nil", s |-> "42"]
  /\ convertToString([t |-> "bool", v |-> TRUE]).err = "unsupported type"
  /\ convertToString(GoNil).err = "unsupported type"
  /\ convertToString([t |-> "array"]).err = "unsupported type"
  /\ convertToString([t |-> "map", v |-> Empty]).err = "unsupported type"
  /\ \A i \in 1..Len(tasks) :
       (Processed(i) /\ HasIdentifier(tasks[i].body)) =>
         LET j == Identifier(tasks[i].body)
             c == tasks[i].calls
         IN IF j.t \in {"string", "number"}
            THEN /\ c # << >>
                 /\ c[Len(c)].op \in {"upsert", "delete"}
                 /\ c[Len(c)].id = Canon(j)
            ELSE /\ tasks[i].err # "nil"
                 /\ c = << >>

\* C27 witness: a Deleted envelope whose identifier is a boolean has failed
\* with no request made.
C27_Witness ==
  \E i \in 1..Len(tasks) :
    /\ OfKind(tasks[i].body, {"Deleted"})
    /\ HasIdentifier(tasks[i].body)
    /\ Identifier(tasks[i].body).t = "bool"
    /\ tasks[i].err = "invalid document ID"
    /\ tasks[i].calls = << >>
    /\ Decided(i)

\* C28: the number of tokens in workerChan is the number of processing
\* goroutines started and not ended, whatever their outcome, and never more
\* than `concurrency`; with no goroutine left every slot is free.
C28_SlotsMatchTasks ==
  /\ workerChan = Len(tasks)
  /\ workerChan \in 0..Concurrency

\* C28 witness: every slot is held, by a delivery that failed to decode and
\* by one whose handler failed, both past their decision and not yet ended.
C28_Witness ==
  /\ workerChan = Concurrency
  /\ \E i \in 1..Len(tasks) :
       Decided(i) /\ tasks[i].err = "failed to parse message"
  /\ \E i \in 1..Len(tasks) :
       Decided(i) /\ tasks[i].handlers = 1 /\ tasks[i].err # "nil"

\* ---------------------------------------- claims on ordering and on locking

\* The messages waiting for a retry: the buffer and the unsent part of every
\* retry batch.
Waiting(m) == InSeq(m, messageQueue) \/ \E l \in Loops : InSeq(m, batch[l])

\* The application's Publish is accepted by the broker on the live path.
LiveSend == pc[App] = "pub_send" /\ pc'[App] = "idle" /\ sent' # sent

\* C29: no live publish to a queue is sent while a message for that queue
\* is waiting in the retry buffer or in a retry batch.
C29_NoOvertaking ==
  [][ LiveSend =>
        ~\E m \in Messages : m.QueueName = amsg.QueueName /\ Waiting(m) ]_vars

\* C30: NewChannel does not hold s.mutex while its request to the broker is
\* under way.
C30_NoLockAcrossBrokerCall == ~(npc = "asking" /\ mutex = "newchannel")

\* ------------------------------------- claims on the publisher's reconnect hook

\* The retryMessages goroutines that have been started; none of them ends.
RunningLoops == {l \in Loops : pc[l] # "off"}

\* C31: at most one retryMessages loop is running, whatever the number of
\* reconnects.
C31_OneRetryLoop == Cardinality(RunningLoops) <= 1

\* handleReconnect calls the callback that s.onReconnect holds.
CallbackInvoked == spc = "pause" /\ spc' # "pause"

\* C32: after the application has registered a callback of its own, every
\* successful reconnect still runs the publisher's hook: each call of the
\* registered callback starts with pausePublishing.
C32_PublisherHookKept ==
  [][ CallbackInvoked => paused' /\ spc' = "callback_declare" ]_vars

\* The publisher's hook is between its pausePublishing and the end of its
\* resumePublishing.
InHook == spc \in {"callback_declare", "resume"}

\* C33: the publisher is never left paused forever.  The hook's
\* re-declaration, succeeded or failed, is followed by resumePublishing in
\* the same invocation; the flag is set only inside the hook; and whenever
\* it is set it is cleared later.
C33_NeverLeftPaused ==
  /\ [][ spc = "callback_declare" /\ spc' # spc => spc' = "resume" ]_vars
  /\ [][ spc = "resume" /\ spc' # spc => ~paused' ]_vars
  /\ [](paused => InHook)
  /\ (paused ~> ~paused)

\* C33 witness: the hook has resumed publishing (a further retry loop was
\* started) although its re-declaration failed: the connection is open and
\* the channel was closed by the refused declaration.
C33_Witness ==
  /\ spc = "wait"
  /\ ~paused
  /\ Conn = "open"
  /\ ~Channel.open
  /\ Cardinality(RunningLoops) > 1

====
